---- MODULE Spec2Model ----
(***************************************************************************)
(* A model of main.py: the ToC recogniser (TOC_ENTRY_PATTERN,              *)
(* parse_toc_entry), the ToC assembler (find_toc_content,                  *)
(* parse_toc_entries), the section extractor (_extract_section_content,    *)
(* parse_document_sections), the reconciliation report                     *)
(* (generate_validation_report) and the driver (main).                     *)
(*                                                                         *)
(* Text is a sequence of one-character strings, so that strip, split,      *)
(* search and the regular expressions are computed character by character. *)
(***************************************************************************)
EXTENDS Integers, Sequences, FiniteSets, TLC

VARIABLES pc, text_pages, toc_lines, toc_entries, parsed_sections,
          written, report, error, calls, line, entry

vars == <<pc, text_pages, toc_lines, toc_entries, parsed_sections,
          written, report, error, calls, line, entry>>

(***************************************************************************)
(* Bounds of the model.                                                    *)
(***************************************************************************)
MaxPages == 3

MaxTitleTokens == 3

MaxEntries == 2

MaxDocPages == 3

(***************************************************************************)
(* Python values.                                                          *)
(***************************************************************************)
\* Python's None where the value is otherwise a text (no text is equal to
\* it: its one element is not a character)
None == <<"None">>

\* Python's None where the value is otherwise a record: a failed regex match,
\* an entry that was not produced, a report that was not written
NoMatch == [none |-> TRUE]

NoEntry == [none |-> TRUE]

NoReport == [none |-> TRUE]

\* The constant doc_title that main passes to parse_toc_entries.
doc_title == "Universal Serial Bus Power Delivery Specification"

Min(S) == CHOOSE x \in S : \A y \in S : x <= y

Max(S) == CHOOSE x \in S : \A y \in S : x >= y

(***************************************************************************)
(* Characters and the character classes of Python's re and str.strip.      *)
(***************************************************************************)
Digit == {"0", "1", "2", "3", "4", "5", "6", "7", "8", "9"}

UpperLetters == <<"A", "B", "C", "D", "E", "F", "G", "H", "I", "J", "K", "L", "M",
                  "N", "O", "P", "Q", "R", "S", "T", "U", "V", "W", "X", "Y", "Z">>

LowerLetters == <<"a", "b", "c", "d", "e", "f", "g", "h", "i", "j", "k", "l", "m",
                  "n", "o", "p", "q", "r", "s", "t", "u", "v", "w", "x", "y", "z">>

Upper == {UpperLetters[i] : i \in 1..Len(UpperLetters)}

Lower == {LowerLetters[i] : i \in 1..Len(LowerLetters)}

\* \s of re, and the characters str.strip() removes
Whitespace == {" ", "\t", "\n", "\r"}

IsSpace(c) == c \in Whitespace

IsDigit(c) == c \in Digit

\* [A-Za-z]
IsAlpha(c) == c \in Upper \cup Lower

\* \w of re
IsWord(c) == IsAlpha(c) \/ IsDigit(c) \/ c = "_"

\* the case folding re.IGNORECASE compares with
Fold(c) ==
  IF c \in Upper
    THEN LowerLetters[CHOOSE i \in 1..Len(UpperLetters) : UpperLetters[i] = c]
    ELSE c

(***************************************************************************)
(* str.strip, str.split, str.join, substring tests, re.search of a literal. *)
(***************************************************************************)
\* s.strip()
Strip(s) ==
  LET keep == {i \in 1..Len(s) : ~IsSpace(s[i])}
  IN  IF keep = {} THEN <<>> ELSE SubSeq(s, Min(keep), Max(keep))

\* s.split(sep) for a one-character separator: the pieces between separators
RECURSIVE SplitFrom(_, _, _, _)
SplitFrom(s, sep, from, i) ==
  IF i > Len(s) THEN <<SubSeq(s, from, Len(s))>>
  ELSE IF s[i] = sep
    THEN <<SubSeq(s, from, i - 1)>> \o SplitFrom(s, sep, i + 1, i + 1)
    ELSE SplitFrom(s, sep, from, i + 1)

Split(s, sep) == SplitFrom(s, sep, 1, 1)

\* sep.join(parts)
RECURSIVE Join(_, _)
Join(parts, sep) ==
  IF parts = <<>> THEN <<>>
  ELSE IF Len(parts) = 1 THEN parts[1]
  ELSE parts[1] \o sep \o Join(Tail(parts), sep)

\* pat occurs in s at position i, compared exactly
MatchAt(pat, s, i) ==
  /\ i + Len(pat) - 1 <= Len(s)
  /\ \A k \in 1..Len(pat) : s[i + k - 1] = pat[k]

\* pat occurs in s at position i, compared under re.IGNORECASE
MatchAtCI(pat, s, i) ==
  /\ i + Len(pat) - 1 <= Len(s)
  /\ \A k \in 1..Len(pat) : Fold(s[i + k - 1]) = Fold(pat[k])

\* pat in s
Contains(pat, s) == \E i \in 1..(Len(s) + 1) : MatchAt(pat, s, i)

\* re.search(re.escape(pat), s, re.IGNORECASE): the start of the leftmost
\* match (1-based), 0 when there is none
RECURSIVE SearchFrom(_, _, _)
SearchFrom(pat, s, i) ==
  IF i + Len(pat) - 1 > Len(s) THEN 0
  ELSE IF MatchAtCI(pat, s, i) THEN i
  ELSE SearchFrom(pat, s, i + 1)

SearchCaseSensitive(pat, s) ==
  LET hits == {i \in 1..Len(s) : MatchAt(pat, s, i)}
  IN  IF hits = {} THEN 0 ELSE Min(hits)

Search(pat, s) == SearchFrom(pat, s, 1)

\* int(digits)
DigitValue(c) == CHOOSE v \in 0..9 : <<"0", "1", "2", "3", "4", "5", "6", "7", "8", "9">>[v + 1] = c

RECURSIVE ToInt(_)
ToInt(ds) ==
  IF ds = <<>> THEN 0
  ELSE 10 * ToInt(SubSeq(ds, 1, Len(ds) - 1)) + DigitValue(ds[Len(ds)])

(***************************************************************************)
(* TOC_ENTRY_PATTERN: at the start of the line a section_id, which is      *)
(* either digits followed by any number of groups "period, digits" or a    *)
(* letter followed by any number of word or whitespace characters; then    *)
(* whitespace; a title of three or more characters none of which is a      *)
(* period; whitespace; a page of digits; optional whitespace; the end.     *)
(* A match is a choice of the ends i, j, k, m, p of section_id, the first  *)
(* whitespace, title, the second whitespace and page.  The backtracking    *)
(* matcher prefers the first alternative of section_id and, every          *)
(* quantifier being greedy, the longest choice at each position in turn.   *)
(***************************************************************************)
AllSpace(s, a, b) == \A x \in a..b : IsSpace(s[x])

AllDigit(s, a, b) == \A x \in a..b : IsDigit(s[x])

NoPeriod(s, a, b) == \A x \in a..b : s[x] # "."

\* digits from position a: the position after the longest run of digits (a if none)
RECURSIVE DigitsEnd(_, _)
DigitsEnd(s, a) ==
  IF a <= Len(s) /\ IsDigit(s[a]) THEN DigitsEnd(s, a + 1) ELSE a

\* the groups "period, digits" that follow the leading digits: the position
\* after the last group that matches
RECURSIVE DotGroupsEnd(_, _)
DotGroupsEnd(s, a) ==
  IF a <= Len(s) /\ s[a] = "." /\ DigitsEnd(s, a + 1) > a + 1
    THEN DotGroupsEnd(s, DigitsEnd(s, a + 1))
    ELSE a

\* the numeric pattern of parse_toc_entry matches the whole of s
IsNumericId(s) ==
  /\ DigitsEnd(s, 1) > 1
  /\ DotGroupsEnd(s, DigitsEnd(s, 1)) = Len(s) + 1

\* page, optional whitespace, end: the ends p of page when page starts after m
PageEnds(s, m) ==
  {p \in (m + 1)..Len(s) : AllDigit(s, m + 1, p) /\ AllSpace(s, p + 1, Len(s))}

\* whitespace before page: the ends m of it when title ends at k
PageStarts(s, k) ==
  {m \in (k + 1)..Len(s) : AllSpace(s, k + 1, m) /\ PageEnds(s, m) # {}}

\* title: the ends k of title when the first whitespace ends at j
TitleEnds(s, j) ==
  {k \in (j + 3)..Len(s) : NoPeriod(s, j + 1, k) /\ PageStarts(s, k) # {}}

\* whitespace after section_id: the ends j of it when section_id ends at i
TitleStarts(s, i) ==
  {j \in (i + 1)..Len(s) : AllSpace(s, i + 1, j) /\ TitleEnds(s, j) # {}}

\* first alternative (numeric): the ends i that lead to a match
NumericIdEnds(s) ==
  {i \in 1..Len(s) : IsNumericId(SubSeq(s, 1, i)) /\ TitleStarts(s, i) # {}}

\* second alternative (label): the ends i that lead to a match
LabelIdEnds(s) ==
  {i \in 1..Len(s) :
     /\ IsAlpha(s[1])
     /\ \A x \in 2..i : IsWord(s[x]) \/ IsSpace(s[x])
     /\ TitleStarts(s, i) # {}}

GroupsAt(s, i) ==
  LET j == Max(TitleStarts(s, i))
      k == Max(TitleEnds(s, j))
      m == Max(PageStarts(s, k))
      p == Max(PageEnds(s, m))
  IN  [section_id |-> SubSeq(s, 1, i),
       title      |-> SubSeq(s, j + 1, k),
       page       |-> SubSeq(s, m + 1, p)]

\* TOC_ENTRY_PATTERN.match(s): the named groups, or no match
TocMatch(s) ==
  IF NumericIdEnds(s) # {} THEN GroupsAt(s, Max(NumericIdEnds(s)))
  ELSE IF LabelIdEnds(s) # {} THEN GroupsAt(s, Max(LabelIdEnds(s)))
  ELSE NoMatch

(***************************************************************************)
(* FIGURE_TABLE_PATTERN: a word boundary, Figure or Table, whitespace,     *)
(* a digit; letter case ignored.                                           *)
(***************************************************************************)
WordFigure == <<"F", "i", "g", "u", "r", "e">>

WordTable == <<"T", "a", "b", "l", "e">>

\* \b before a word character at position i
BoundaryBefore(s, i) == i = 1 \/ ~IsWord(s[i - 1])

\* the word w, then whitespace and a digit, matches at position i
WordNumberAt(w, s, i) ==
  /\ BoundaryBefore(s, i)
  /\ MatchAtCI(w, s, i)
  /\ \E j \in (i + Len(w))..Len(s) :
       /\ AllSpace(s, i + Len(w), j)
       /\ j + 1 <= Len(s)
       /\ IsDigit(s[j + 1])

\* FIGURE_TABLE_PATTERN.search(title) is not None
FigureTableSearch(title) ==
  \E i \in 1..Len(title) :
    WordNumberAt(WordFigure, title, i) \/ WordNumberAt(WordTable, title, i)

(***************************************************************************)
(* parse_toc_entry                                                         *)
(***************************************************************************)
\* level: the number of parts of a numeric section_id, 1 for any other
HierarchyLevel(section_id) ==
  IF IsNumericId(section_id) THEN Len(Split(section_id, ".")) ELSE 1

\* parent_id: the parts but the last joined by periods when level > 1
HierarchyParentDropsFirst(section_id) ==
  LET parts == Split(section_id, ".")
  IN  IF IsNumericId(section_id) /\ Len(parts) > 1
        THEN Join(SubSeq(parts, 2, Len(parts)), <<".">>)
        ELSE None

HierarchyParent(section_id) ==
  LET parts == Split(section_id, ".")
  IN  IF IsNumericId(section_id) /\ Len(parts) > 1
        THEN Join(SubSeq(parts, 1, Len(parts) - 1), <<".">>)
        ELSE None

\* tags: "figure" if "Figure" in title else "table", when the pattern is found
FigureTableTags(title) ==
  IF FigureTableSearch(title)
    THEN <<IF Contains(WordFigure, title) THEN "figure" ELSE "table">>
    ELSE <<>>

parse_toc_entry(ln, dt) ==
  LET match == TocMatch(Strip(ln))
  IN  IF match = NoMatch THEN NoEntry
      ELSE LET section_id == Strip(match.section_id)
               title      == Strip(match.title)
           IN  [doc_title  |-> dt,
                section_id |-> section_id,
                title      |-> title,
                page       |-> ToInt(Strip(match.page)),
                level      |-> HierarchyLevel(section_id),
                parent_id  |-> HierarchyParent(section_id),
                full_path  |-> Strip(section_id \o <<" ">> \o title),
                tags       |-> FigureTableTags(title)]

(***************************************************************************)
(* The lines parse_toc_entry is applied to in SpecEntry: a section_id, a   *)
(* separator, a title of up to MaxTitleTokens tokens and a page, each from  *)
(* a small vocabulary that holds well-formed and ill-formed pieces.        *)
(***************************************************************************)
IdVocab ==
  { <<"1">>, <<"1", ".", "2">>, <<"3", ".", "2", ".", "1">>,
    <<"A">>, <<"A", "b", " ", "1">>, <<"2", ".">> }

SepVocab == { <<" ">>, <<" ", "\t">> }

TitleTokens ==
  { WordFigure, <<"f", "i", "g", "u", "r", "e">>, WordTable,
    <<" ", "1">>, <<"x">>, <<" ">>, <<".">> }

PageNumberVocab == { <<" ", "7">>, <<>> }

RECURSIVE TokenTexts(_)
TokenTexts(n) ==
  IF n = 0 THEN { <<>> }
  ELSE LET shorter == TokenTexts(n - 1)
       IN  shorter \cup { t \o tok : t \in shorter, tok \in TitleTokens }

RawLines ==
  { id \o sep \o title \o pg :
      id \in IdVocab, sep \in SepVocab,
      title \in TokenTexts(MaxTitleTokens), pg \in PageNumberVocab }

InitEntry ==
  /\ pc = "line"
  /\ line \in RawLines
  /\ entry = NoEntry
  /\ text_pages = <<>>
  /\ toc_lines = <<>>
  /\ toc_entries = <<>>
  /\ parsed_sections = <<>>
  /\ written = <<>>
  /\ report = NoReport
  /\ error = "none"
  /\ calls = <<>>

ParseEntry ==
  /\ pc = "line"
  /\ entry' = parse_toc_entry(line, doc_title)
  /\ pc' = "entry"
  /\ UNCHANGED <<text_pages, toc_lines, toc_entries, parsed_sections,
                 written, report, error, calls, line>>

NextEntry == ParseEntry

SpecEntry == InitEntry /\ [][NextEntry]_vars

(***************************************************************************)
(* find_toc_content and parse_toc_entries                                  *)
(***************************************************************************)
\* the lines of one page that TOC_ENTRY_PATTERN accepts, stripped, each with
\* the 0-based index i of the page
RECURSIVE PageTocLines(_, _)
PageTocLines(i, lines) ==
  IF lines = <<>> THEN <<>>
  ELSE (IF TocMatch(Strip(Head(lines))) # NoMatch
          THEN << <<i, Strip(Head(lines))>> >>
          ELSE <<>>) \o PageTocLines(i, Tail(lines))

\* the scan of find_toc_content over pages i+1, i+2, ... (i is 0-based)
RECURSIVE ScanPages(_, _)
ScanPages(pages, i) ==
  IF i >= Len(pages) THEN <<>>
  ELSE PageTocLines(i, Split(pages[i + 1], "\n")) \o ScanPages(pages, i + 1)

FindTocLines(pages) == ScanPages(pages, 0)

\* if not toc_lines: raise RuntimeError
FindTocNeverRaises(tl) == FALSE

FindTocRaises(tl) == tl = <<>>

\* entry['page'] = page_num + 1
EntryPageFromLine(page_num, e) == e.page

EntryPage(page_num, e) == page_num + 1

RECURSIVE parse_toc_entries(_, _)
parse_toc_entries(tl, dt) ==
  IF tl = <<>> THEN <<>>
  ELSE LET page_num == Head(tl)[1]
           e        == parse_toc_entry(Head(tl)[2], dt)
       IN  (IF e # NoEntry
              THEN << [e EXCEPT !.page = EntryPage(page_num, e)] >>
              ELSE <<>>) \o parse_toc_entries(Tail(tl), dt)

(***************************************************************************)
(* _extract_section_content and parse_document_sections                    *)
(***************************************************************************)
MinOf(a, b) == IF a <= b THEN a ELSE b

MaxOf(a, b) == IF a >= b THEN a ELSE b

\* start_page, 0-based, clamped into the document
StartPage(pages, section) ==
  MaxOf(0, MinOf(section.page - 1, Len(pages) - 1))

\* end_page, 0-based: the next entry's page, or the page count when there is
\* no next entry, and never more than the page count
EndPageDropsLast(pages, next_section) ==
  MinOf(IF next_section # NoEntry THEN next_section.page - 1 ELSE Len(pages) - 1,
        Len(pages))

EndPage(pages, next_section) ==
  MinOf(IF next_section # NoEntry THEN next_section.page - 1 ELSE Len(pages),
        Len(pages))

\* the start page: the text after the heading, or the whole page
StartFragment(page_text, section_id) ==
  LET at == Search(section_id, page_text)
  IN  IF at # 0
        THEN Strip(SubSeq(page_text, at + Len(section_id), Len(page_text)))
        ELSE Strip(page_text)

\* the pages of range(start_page + 1, end_page), stripped
RECURSIVE MiddleFragments(_, _, _)
MiddleFragments(pages, page_num, end_page) ==
  IF page_num >= end_page THEN <<>>
  ELSE <<Strip(pages[page_num + 1])>> \o MiddleFragments(pages, page_num + 1, end_page)

\* the end page: the text before the next heading, or the whole page
EndFragment(end_page_text, next_id) ==
  LET at == Search(next_id, end_page_text)
  IN  IF at # 0
        THEN Strip(SubSeq(end_page_text, 1, at - 1))
        ELSE Strip(end_page_text)

\* if next_section and end_page < len(text_pages)
EndPageProcessed(pages, next_section, end_page) ==
  next_section # NoEntry /\ end_page < Len(pages)

extract_section_content(pages, section, next_section) ==
  LET start_page == StartPage(pages, section)
      end_page   == EndPage(pages, next_section)
      content_parts ==
        <<StartFragment(pages[start_page + 1], section.section_id)>>
        \o MiddleFragments(pages, start_page + 1, end_page)
        \o (IF EndPageProcessed(pages, next_section, end_page)
              THEN <<EndFragment(pages[end_page + 1], next_section.section_id)>>
              ELSE <<>>)
  IN  Strip(Join(content_parts, <<" ">>))

\* sorted(toc_entries, key=page): a stable sort, by insertion after the
\* entries whose page is not greater
RECURSIVE InsertByPage(_, _)
InsertByPage(sorted, e) ==
  IF sorted = <<>> THEN <<e>>
  ELSE IF e.page < sorted[Len(sorted)].page
    THEN InsertByPage(SubSeq(sorted, 1, Len(sorted) - 1), e) \o <<sorted[Len(sorted)]>>
    ELSE sorted \o <<e>>

RECURSIVE SortedByPage(_)
SortedByPage(entries) ==
  IF entries = <<>> THEN <<>>
  ELSE InsertByPage(SortedByPage(SubSeq(entries, 1, Len(entries) - 1)),
                    entries[Len(entries)])

\* section.copy() with the content added
SectionWithContent(section, content) ==
  [doc_title  |-> section.doc_title,
   section_id |-> section.section_id,
   title      |-> section.title,
   page       |-> section.page,
   level      |-> section.level,
   parent_id  |-> section.parent_id,
   full_path  |-> section.full_path,
   tags       |-> section.tags,
   content    |-> content]

\* the loop of parse_document_sections over the first n sorted entries
SectionsUpTo(pages, sorted_toc, n) ==
  [i \in 1..n |->
     SectionWithContent(
       sorted_toc[i],
       extract_section_content(
         pages, sorted_toc[i],
         IF i + 1 <= Len(sorted_toc) THEN sorted_toc[i + 1] ELSE NoEntry))]

parse_document_sections_skip_last(pages, entries) ==
  SectionsUpTo(pages, SortedByPage(entries), Len(entries) - 1)

parse_document_sections(pages, entries) ==
  SectionsUpTo(pages, SortedByPage(entries), Len(entries))

\* what parse_document_sections leaves in the caller's list: sorted() builds a
\* new list and copy() a new dict, so the list is as it was
EntriesSortedInPlace(entries) == SortedByPage(entries)

EntriesAfterParse(entries) == entries

(***************************************************************************)
(* generate_validation_report                                              *)
(***************************************************************************)
\* a cell of a DataFrame: a value, or NaN where the outer join found no row
Cell(v) == [na |-> FALSE, v |-> v]

NaN == [na |-> TRUE]

\* pd.merge(toc_df, parsed_df, on="section_id", how="outer"): one row for
\* every pair of a ToC row and a parsed row with the same section_id, one row
\* for every ToC row with no partner and one for every parsed row with no
\* partner.  A row is named by the pair of positions (0 for the missing side).
MergePairs(toc, parsed) ==
  {<<i, j>> \in (1..Len(toc)) \X (1..Len(parsed)) :
     toc[i].section_id = parsed[j].section_id}
  \cup {<<i, 0>> : i \in {x \in 1..Len(toc) :
                    \A j \in 1..Len(parsed) : parsed[j].section_id # toc[x].section_id}}
  \cup {<<0, j>> : j \in {y \in 1..Len(parsed) :
                    \A i \in 1..Len(toc) : toc[i].section_id # parsed[y].section_id}}

\* the columns section_id, title_toc, page_toc, title_parsed, page_parsed
MergeRow(toc, parsed, pr) ==
  [section_id   |-> IF pr[1] # 0 THEN toc[pr[1]].section_id ELSE parsed[pr[2]].section_id,
   title_toc    |-> IF pr[1] # 0 THEN Cell(toc[pr[1]].title) ELSE NaN,
   page_toc     |-> IF pr[1] # 0 THEN Cell(toc[pr[1]].page) ELSE NaN,
   title_parsed |-> IF pr[2] # 0 THEN Cell(parsed[pr[2]].title) ELSE NaN,
   page_parsed  |-> IF pr[2] # 0 THEN Cell(parsed[pr[2]].page) ELSE NaN]

\* comparison_df.dropna(): the rows with no NaN cell
NoNaN(row) ==
  /\ ~row.title_toc.na
  /\ ~row.page_toc.na
  /\ ~row.title_parsed.na
  /\ ~row.page_parsed.na

\* the Summary sheet (the metric values and the one-sided rows listed after
\* them; the order of the listed rows is not modelled)
generate_validation_report(toc, parsed) ==
  IF toc = <<>>
    THEN [status |-> "No TOC entries found"]
    ELSE LET pairs         == MergePairs(toc, parsed)
             comparison_df == [pr \in pairs |-> MergeRow(toc, parsed, pr)]
             toc_only      == {pr \in pairs : comparison_df[pr].title_parsed.na}
             parsed_only   == {pr \in pairs : comparison_df[pr].title_toc.na}
         IN  [total_toc        |-> Len(toc),
              total_parsed     |-> Len(parsed),
              matched          |-> Cardinality({pr \in pairs : NoNaN(comparison_df[pr])}),
              toc_only         |-> Cardinality(toc_only),
              parsed_only      |-> Cardinality(parsed_only),
              toc_only_rows    |-> {<<pr, comparison_df[pr].section_id>> : pr \in toc_only},
              parsed_only_rows |-> {<<pr, comparison_df[pr].section_id>> : pr \in parsed_only}]

(***************************************************************************)
(* The documents of the driver: up to MaxPages pages, each from a          *)
(* vocabulary of page texts with and without ToC lines.                    *)
(***************************************************************************)
PageTale == <<"a", " ", "t", "a", "l", "e", ".", "\n">>

PageIntro == <<"1", " ", "A", "b", "c", " ", "2", "\n">>

PageAppendix == <<"A", " ", "b", "c", "d", " ", "1">>

PageTwoEntries == <<"1", " ", "A", "b", "c", " ", "2", "\n", "A", " ", "b", "c", "d", " ", "1", "\n">>

PageSubsection == <<" ", "a", " ", "t", "a", "l", "e", ".", "\n", "1", ".", "1", " ", "x", "y", "z", " ", "3">>

PageVocab ==
  { <<>>, PageTale, PageIntro, PageAppendix, PageTwoEntries, PageSubsection }

RECURSIVE SeqsUpTo(_, _)
SeqsUpTo(S, n) ==
  IF n = 0 THEN { <<>> }
  ELSE LET shorter == SeqsUpTo(S, n - 1)
       IN  shorter \cup { Append(q, x) : q \in shorter, x \in S }

Docs == SeqsUpTo(PageVocab, MaxPages)

(***************************************************************************)
(* main: one action per call of the driver.  An exception ends the run in  *)
(* "failed": the except clause prints and raises again.                    *)
(***************************************************************************)
TocFile == "usb_pd_toc_fixed.jsonl"

SpecFile == "usb_pd_spec_fixed.jsonl"

ReportFile == "validation_report_fixed.xlsx"

Init ==
  /\ pc = "extract_text"
  /\ text_pages = <<>>
  /\ toc_lines = <<>>
  /\ toc_entries = <<>>
  /\ parsed_sections = <<>>
  /\ written = <<>>
  /\ report = NoReport
  /\ error = "none"
  /\ calls = <<>>
  /\ line = <<>>
  /\ entry = NoEntry

\* text_pages = extract_text_from_pdf(PDF_PATH)
ExtractText ==
  /\ pc = "extract_text"
  /\ \E doc \in Docs : text_pages' = doc
  /\ calls' = Append(calls, "extract_text_from_pdf")
  /\ pc' = "find_toc"
  /\ UNCHANGED <<toc_lines, toc_entries, parsed_sections, written, report,
                 error, line, entry>>

\* extract_text_from_pdf raises FileNotFoundError or IOError
ExtractTextFails ==
  /\ pc = "extract_text"
  /\ \E e \in {"FileNotFoundError", "IOError"} : error' = e
  /\ calls' = Append(calls, "extract_text_from_pdf")
  /\ pc' = "failed"
  /\ UNCHANGED <<text_pages, toc_lines, toc_entries, parsed_sections, written,
                 report, line, entry>>

\* toc_lines = find_toc_content(text_pages)
FindTocContent ==
  /\ pc = "find_toc"
  /\ calls' = Append(calls, "find_toc_content")
  /\ LET found == FindTocLines(text_pages)
     IN  IF FindTocRaises(found)
           THEN /\ error' = "RuntimeError"
                /\ pc' = "failed"
                /\ UNCHANGED toc_lines
           ELSE /\ toc_lines' = found
                /\ pc' = "parse_toc"
                /\ UNCHANGED error
  /\ UNCHANGED <<text_pages, toc_entries, parsed_sections, written, report,
                 line, entry>>

\* toc_entries = parse_toc_entries(toc_lines, doc_title)
ParseTocEntries ==
  /\ pc = "parse_toc"
  /\ calls' = Append(calls, "parse_toc_entries")
  /\ toc_entries' = parse_toc_entries(toc_lines, doc_title)
  /\ pc' = "parse_sections"
  /\ UNCHANGED <<text_pages, toc_lines, parsed_sections, written, report,
                 error, line, entry>>

\* parsed_sections = parse_document_sections(text_pages, toc_entries)
ParseDocumentSections ==
  /\ pc = "parse_sections"
  /\ calls' = Append(calls, "parse_document_sections")
  /\ parsed_sections' = parse_document_sections(text_pages, toc_entries)
  /\ toc_entries' = EntriesAfterParse(toc_entries)
  /\ pc' = "save_toc"
  /\ UNCHANGED <<text_pages, toc_lines, written, report, error, line, entry>>

\* save_jsonl(toc_entries, "usb_pd_toc_fixed.jsonl")
SaveToc ==
  /\ pc = "save_toc"
  /\ calls' = Append(calls, "save_jsonl")
  /\ written' = Append(written, [name |-> TocFile, records |-> Len(toc_entries)])
  /\ pc' = "save_spec"
  /\ UNCHANGED <<text_pages, toc_lines, toc_entries, parsed_sections, report,
                 error, line, entry>>

\* save_jsonl(parsed_sections, "usb_pd_spec_fixed.jsonl")
SaveSpec ==
  /\ pc = "save_spec"
  /\ calls' = Append(calls, "save_jsonl")
  /\ written' = Append(written, [name |-> SpecFile, records |-> Len(parsed_sections)])
  /\ pc' = "report"
  /\ UNCHANGED <<text_pages, toc_lines, toc_entries, parsed_sections, report,
                 error, line, entry>>

\* generate_validation_report(toc_entries, parsed_sections)
GenerateValidationReport ==
  /\ pc = "report"
  /\ calls' = Append(calls, "generate_validation_report")
  /\ report' = generate_validation_report(toc_entries, parsed_sections)
  /\ written' = Append(written, [name |-> ReportFile, records |-> 2])
  /\ pc' = "done"
  /\ UNCHANGED <<text_pages, toc_lines, toc_entries, parsed_sections, error,
                 line, entry>>

Next ==
  \/ ExtractText
  \/ ExtractTextFails
  \/ FindTocContent
  \/ ParseTocEntries
  \/ ParseDocumentSections
  \/ SaveToc
  \/ SaveSpec
  \/ GenerateValidationReport

Spec == Init /\ [][Next]_vars

(***************************************************************************)
(* SpecExtract: parse_document_sections applied to any list of up to       *)
(* MaxEntries entries, in any order, whose pages lie in a document of up   *)
(* to MaxDocPages pages.                                                   *)
(***************************************************************************)
PagePlain == <<" ", "x", " ", "y", " ">>

ExtractPageVocab == { PageTale, PageTwoEntries, PagePlain }

ExtractIds == { <<"1">>, <<"A">> }

\* the entry the assembler makes of a ToC line with this section_id, found
\* on this page
EntryFor(id, page) ==
  [parse_toc_entry(id \o <<" ", "A", "b", "c", " ", "9">>, doc_title) EXCEPT !.page = page]

EntryLists(page_count) ==
  SeqsUpTo({EntryFor(id, page) : id \in ExtractIds, page \in 1..page_count},
           MaxEntries) \ { <<>> }

InitExtract ==
  /\ pc = "parse_sections"
  /\ text_pages \in SeqsUpTo(ExtractPageVocab, MaxDocPages) \ { <<>> }
  /\ toc_entries \in EntryLists(Len(text_pages))
  /\ toc_lines = <<>>
  /\ parsed_sections = <<>>
  /\ written = <<>>
  /\ report = NoReport
  /\ error = "none"
  /\ calls = <<>>
  /\ line = <<>>
  /\ entry = NoEntry

NextExtract == ParseDocumentSections

SpecExtract == InitExtract /\ [][NextExtract]_vars

(***************************************************************************)
(* The properties checked.                                                 *)
(***************************************************************************)
Called(f) == \E i \in 1..Len(calls) : calls[i] = f

\* the lines of a page, as find_toc_content sees them
LinesOfPage(pages, p) == Split(pages[p], "\n")

\* the positions <<page, line>> (both 1-based) of the lines recognised as
\* ToC entries
RecognizedPositions(pages) ==
  UNION { { <<p, l>> : l \in { x \in 1..Len(LinesOfPage(pages, p)) :
                                 TocMatch(Strip(LinesOfPage(pages, p)[x])) # NoMatch } } :
          p \in 1..Len(pages) }

AfterToc == {"parse_sections", "save_toc", "save_spec", "report", "done"}

AfterSections == {"save_toc", "save_spec", "report", "done"}

\* C1: when no line of any page is recognised as a ToC entry (an empty page
\* sequence included), find_toc_content raises, and the run of main ends
\* there: parse_document_sections is never called, neither record file is
\* written and no report is written.
C1_NoTocAborts ==
  (Called("find_toc_content") /\ RecognizedPositions(text_pages) = {})
    => /\ pc = "failed"
       /\ error = "RuntimeError"
       /\ ~Called("parse_document_sections")
       /\ written = <<>>
       /\ report = NoReport

C1_Witness ==
  /\ pc = "failed"
  /\ error = "RuntimeError"
  /\ Len(text_pages) = 2
  /\ RecognizedPositions(text_pages) = {}

\* scan order: page order, then line order within a page
ScanBefore(a, b) == a[1] < b[1] \/ (a[1] = b[1] /\ a[2] <= b[2])

ScanRank(R, pos) == Cardinality({q \in R : ScanBefore(q, pos)})

\* C9: find_toc_content followed by parse_toc_entries yields one entry per
\* recognised line, in scan order; the k-th entry is parse_toc_entry of the
\* k-th recognised line with page replaced by the 1-based number of the page
\* the line is on, whatever number the line ends with; so every page is
\* within 1..pageCount and the list is non-decreasing in page.
C9_OneEntryPerLine ==
  pc \in AfterToc =>
    LET R == RecognizedPositions(text_pages)
    IN  /\ R # {}
        /\ Len(toc_entries) = Cardinality(R)
        /\ \A pos \in R :
             toc_entries[ScanRank(R, pos)] =
               [parse_toc_entry(LinesOfPage(text_pages, pos[1])[pos[2]], doc_title)
                  EXCEPT !.page = pos[1]]
        /\ \A k \in 1..Len(toc_entries) :
             1 <= toc_entries[k].page /\ toc_entries[k].page <= Len(text_pages)
        /\ \A k \in 1..(Len(toc_entries) - 1) :
             toc_entries[k].page <= toc_entries[k + 1].page

C9_Witness ==
  /\ pc = "parse_sections"
  /\ Len(toc_entries) >= 3
  /\ \E pos \in RecognizedPositions(text_pages) :
       parse_toc_entry(LinesOfPage(text_pages, pos[1])[pos[2]], doc_title).page # pos[1]
  /\ \E k \in 1..(Len(toc_entries) - 1) : toc_entries[k].page = toc_entries[k + 1].page

\* the number of entries of a list with a given section_id
IdCount(entries, id) ==
  Cardinality({i \in 1..Len(entries) : entries[i].section_id = id})

IdsOf(entries) == {entries[i].section_id : i \in 1..Len(entries)}

\* C10: in a run of main that succeeds, the sections passed to
\* generate_validation_report have exactly the section_ids of the ToC
\* entries, the report counts no ToC-only and no parsed-only row and lists
\* none, the calls are made in the order of the driver, and the report is
\* written only after both record files.
C10_SuccessfulRunReport ==
  /\ pc = "done" =>
       /\ toc_entries # <<>>
       /\ IdsOf(parsed_sections) = IdsOf(toc_entries)
       /\ \A id \in IdsOf(toc_entries) :
            IdCount(parsed_sections, id) = IdCount(toc_entries, id)
       /\ report.toc_only = 0
       /\ report.parsed_only = 0
       /\ report.toc_only_rows = {}
       /\ report.parsed_only_rows = {}
       /\ calls = <<"extract_text_from_pdf", "find_toc_content", "parse_toc_entries",
                    "parse_document_sections", "save_jsonl", "save_jsonl",
                    "generate_validation_report">>
  /\ report # NoReport =>
       /\ pc = "done"
       /\ Len(written) = 3
       /\ written[1].name = TocFile
       /\ written[2].name = SpecFile
       /\ written[3].name = ReportFile

C10_Witness ==
  /\ pc = "done"
  /\ Len(toc_entries) >= 2
  /\ \E i, j \in 1..Len(toc_entries) :
       i # j /\ toc_entries[i].section_id = toc_entries[j].section_id

\* two lists with the same section_ids, titles and pages, position by position
SameProjection(toc, parsed) ==
  /\ Len(toc) = Len(parsed)
  /\ \A i \in 1..Len(toc) :
       /\ toc[i].section_id = parsed[i].section_id
       /\ toc[i].title = parsed[i].title
       /\ toc[i].page = parsed[i].page

\* C2: for a non-empty ToC list and a parsed list with the same section_ids,
\* titles and pages, the report counts no ToC-only row, no parsed-only row and
\* as many matched rows as there are ToC entries, repeated section_ids
\* included.
C2_IdenticalListsAllMatched ==
  (pc = "done" /\ toc_entries # <<>> /\ SameProjection(toc_entries, parsed_sections))
    => /\ report.toc_only = 0
       /\ report.parsed_only = 0
       /\ report.matched = Len(toc_entries)

\* the text after the first occurrence of id in text, letter case ignored, or
\* the whole text when id does not occur
Occurrences(id, text) == {i \in 1..Len(text) : MatchAtCI(id, text, i)}

TextAfterFirst(id, text) ==
  IF Occurrences(id, text) = {} THEN text
  ELSE SubSeq(text, Min(Occurrences(id, text)) + Len(id), Len(text))

\* the text before the first occurrence of id in text, or the whole text
TextBeforeFirst(id, text) ==
  IF Occurrences(id, text) = {} THEN text
  ELSE SubSeq(text, 1, Min(Occurrences(id, text)) - 1)

\* the fragments joined by single spaces
RECURSIVE SpaceJoined(_)
SpaceJoined(frags) ==
  IF Len(frags) = 0 THEN <<>>
  ELSE IF Len(frags) = 1 THEN frags[1]
  ELSE SpaceJoined(SubSeq(frags, 1, Len(frags) - 1)) \o <<" ">> \o frags[Len(frags)]

\* the trimmed full text of the pages a..b, in page order
WholePages(pages, a, b) == [k \in 1..(b - a + 1) |-> Strip(pages[a + k - 1])]

\* C8: when an entry and the next entry of the page-sorted list are on the
\* same page, only the start-page logic runs: the content is the one fragment
\* of the shared page (the text after the entry's heading), and no text of
\* the page is included twice.
C8_SamePageSingleFragment ==
  pc \in AfterSections =>
    \A i \in 1..(Len(parsed_sections) - 1) :
      parsed_sections[i].page = parsed_sections[i + 1].page =>
        parsed_sections[i].content =
          Strip(TextAfterFirst(parsed_sections[i].section_id,
                               text_pages[parsed_sections[i].page]))

\* a dot-separated sequence of digit groups: digits and periods only, no
\* empty group
DigitGroups(id) ==
  /\ Len(id) > 0
  /\ \A i \in 1..Len(id) : IsDigit(id[i]) \/ id[i] = "."
  /\ id[1] # "." /\ id[Len(id)] # "."
  /\ \A i \in 1..(Len(id) - 1) : ~(id[i] = "." /\ id[i + 1] = ".")

Periods(id) == {i \in 1..Len(id) : id[i] = "."}

\* C5: for every entry parse_toc_entry returns: a section_id of digit groups
\* has level = number of groups, and parent_id = the section_id without its
\* last group and the period before it when level > 1, None when level = 1;
\* any other section_id has level 1 and parent_id None.  So parent_id is
\* present exactly when level > 1, and then has level - 1 groups.
C5_LevelAndParent ==
  (pc = "entry" /\ entry # NoEntry) =>
    LET id == entry.section_id
    IN  /\ DigitGroups(id) =>
              /\ entry.level = Cardinality(Periods(id)) + 1
              /\ entry.level > 1 =>
                   entry.parent_id = SubSeq(id, 1, Max(Periods(id)) - 1)
              /\ entry.level = 1 => entry.parent_id = None
        /\ ~DigitGroups(id) => (entry.level = 1 /\ entry.parent_id = None)
        /\ (entry.parent_id # None) <=> (entry.level > 1)
        /\ entry.parent_id # None =>
             /\ DigitGroups(entry.parent_id)
             /\ Cardinality(Periods(entry.parent_id)) + 1 = entry.level - 1

C5_Witness ==
  /\ pc = "entry"
  /\ entry # NoEntry
  /\ entry.level = 3
  /\ entry.parent_id = <<"3", ".", "2">>

\* the tags of the claim: none without a match of Figure or Table followed by
\* a number; otherwise figure when "figure" occurs in the title in any letter
\* case, and table when it does not
TagsIgnoringCase(title) ==
  IF ~FigureTableSearch(title) THEN <<>>
  ELSE IF \E i \in 1..Len(title) : MatchAtCI(WordFigure, title, i)
    THEN <<"figure">>
    ELSE <<"table">>

\* C6: for every entry parse_toc_entry returns, tags holds at most one tag:
\* none when the title has no match, letter case ignored, of the word Figure
\* or Table followed by a number; otherwise figure if Figure occurs in the
\* title in any letter case, and table if not.
C6_TagsIgnoreCase ==
  (pc = "entry" /\ entry # NoEntry) =>
    /\ Len(entry.tags) <= 1
    /\ entry.tags = TagsIgnoringCase(entry.title)

LastSection == parsed_sections[Len(parsed_sections)]

\* C3: the content of the last entry of the page-sorted list is the trimmed,
\* space-joined sequence of: the start page (index page - 1) after the first
\* occurrence of the entry's section_id, or the whole start page if it does
\* not occur; then every later page up to the last page of the document, once
\* each and in page order.
C3_LastEntryReadsToEnd ==
  pc = "save_toc" =>
    LET last == LastSection
    IN  last.content =
          Strip(SpaceJoined(
            <<Strip(TextAfterFirst(last.section_id, text_pages[last.page]))>>
            \o WholePages(text_pages, last.page + 1, Len(text_pages))))

C3_Witness ==
  /\ pc = "save_toc"
  /\ Len(text_pages) = 3
  /\ LastSection.page = 1
  /\ Occurrences(LastSection.section_id, text_pages[1]) # {}
  /\ Len(LastSection.content) > Len(Strip(text_pages[2])) + Len(Strip(text_pages[3]))

\* the full text of the pages a..b, in page order
RawPages(pages, a, b) == [k \in 1..(b - a + 1) |-> pages[a + k - 1]]

\* C4, as stated: for an entry whose next entry in page-sorted order is on a
\* later page, the content is the trimmed space-join of: the start page after
\* the first occurrence (letter case ignored) of the entry's section_id, or
\* the whole start page; the full text of every page strictly between the two
\* pages, in page order; the end page before the first occurrence of the next
\* entry's section_id, or the whole end page.  The content is always a text.
C4_WindowOfRawFragments ==
  pc = "save_toc" =>
    \A i \in 1..(Len(parsed_sections) - 1) :
      LET sec == parsed_sections[i]
          nxt == parsed_sections[i + 1]
      IN  sec.page < nxt.page =>
            /\ sec.content # None
            /\ sec.content =
                 Strip(SpaceJoined(
                   <<TextAfterFirst(sec.section_id, text_pages[sec.page])>>
                   \o RawPages(text_pages, sec.page + 1, nxt.page - 1)
                   \o <<TextBeforeFirst(nxt.section_id, text_pages[nxt.page])>>))

\* C4, amended: the same three kinds of fragment, each trimmed of leading and
\* trailing whitespace before the fragments are joined by single spaces and
\* the result is trimmed.  The content is always a text.
C4_WindowOfTrimmedFragments ==
  pc = "save_toc" =>
    \A i \in 1..(Len(parsed_sections) - 1) :
      LET sec == parsed_sections[i]
          nxt == parsed_sections[i + 1]
      IN  sec.page < nxt.page =>
            /\ sec.content # None
            /\ sec.content =
                 Strip(SpaceJoined(
                   <<Strip(TextAfterFirst(sec.section_id, text_pages[sec.page]))>>
                   \o WholePages(text_pages, sec.page + 1, nxt.page - 1)
                   \o <<Strip(TextBeforeFirst(nxt.section_id, text_pages[nxt.page]))>>))

C4_Witness ==
  /\ pc = "save_toc"
  /\ Len(parsed_sections) = 2
  /\ parsed_sections[1].page = 1
  /\ parsed_sections[2].page = 3
  /\ Occurrences(parsed_sections[1].section_id, text_pages[1]) # {}
  /\ Occurrences(parsed_sections[2].section_id, text_pages[3]) # {}
  /\ Strip(text_pages[2]) # <<>>

EntryFields ==
  {"doc_title", "section_id", "title", "page", "level", "parent_id", "full_path", "tags"}

\* secs is the list entries sorted by page, entries of equal page in their
\* order in entries, each with a content field added and nothing else changed
SortedCopyWithContent(entries, secs) ==
  /\ Len(secs) = Len(entries)
  /\ \E perm \in [1..Len(entries) -> 1..Len(entries)] :
       /\ \A a, b \in 1..Len(entries) : a # b => perm[a] # perm[b]
       /\ \A k \in 1..Len(secs) :
            /\ DOMAIN secs[k] = EntryFields \cup {"content"}
            /\ DOMAIN entries[perm[k]] = EntryFields
            /\ \A f \in EntryFields : secs[k][f] = entries[perm[k]][f]
       /\ \A k \in 1..(Len(secs) - 1) :
            \/ secs[k].page < secs[k + 1].page
            \/ secs[k].page = secs[k + 1].page /\ perm[k] < perm[k + 1]

\* C7: parse_document_sections returns one Section per entry, ordered by
\* non-decreasing page with entries of equal page in their input order; each
\* Section is its entry with the content field added; the input list and its
\* entries are as they were.
C7_OneSectionPerEntry ==
  [][pc = "parse_sections" =>
       /\ toc_entries' = toc_entries
       /\ SortedCopyWithContent(toc_entries, parsed_sections')]_vars

C7_Witness ==
  /\ pc = "save_toc"
  /\ Len(toc_entries) = 2
  /\ toc_entries[1].page > toc_entries[2].page
  /\ parsed_sections[1].section_id = toc_entries[2].section_id
  /\ parsed_sections[1].section_id # toc_entries[1].section_id

====
